---- MODULE Spec2Model ----
(***************************************************************************)
(* State-machine model of the AudioVisualizer component                    *)
(* (apps/gnsvrs/src/app/components/AudioVisualizer.tsx).                   *)
(*                                                                         *)
(* React state is held in the variables playlist, currentTrackIndex,       *)
(* loopTrack, loopPlaylist and vibrationEnabled.  The refs of the          *)
(* component and the platform objects they point to (the audio element,    *)
(* the canvas, the background layer, the Web Audio graph, the timers and   *)
(* the animation-frame callbacks) are the fields of the record `page`.     *)
(* Every event handler is one action; a handler runs to completion and     *)
(* React re-renders before the next event is handled, so a handler reads   *)
(* the state of the latest render.  Callbacks that are deferred (the       *)
(* zero-delay timer of addToPlaylist, the grace-delay timer of handlePlay, *)
(* the animation-frame callback) keep the values captured by the closure   *)
(* that created them.                                                      *)
(*                                                                         *)
(* Indices are 0-based as in the source; playlist[i + 1] is entry i.       *)
(***************************************************************************)
EXTENDS Integers, Sequences, FiniteSets, TLC

\* ------------------------------------------------------------- bounds
\* Uploads over a run (each upload gets a fresh id and a fresh blob URL).
MaxTracks == 3
\* Undelivered media-element tasks (play / pause / ended) at a time.
MaxEvents == 1
\* Pending grace-delay timers of handlePlay at a time.
MaxTimers == 1
\* Registered, not yet fired, loadeddata listeners at a time.
MaxListeners == 2
\* Playback positions: 0 is the start, TrackEnd the end of the resource.
TrackEnd == 1
\* Track lengths in seconds that the metadata of an upload may report.
MaxSeconds == 1
\* Pending grace-delay timers at a time when the render loop is explored
\* alone (SpecLoop).
MaxLoopTimers == 2

\* ------------------------------------------------------------- values
NoSrc == 0
NoHandle == 0

Urls == 1..MaxTracks

\* Program constants of the analyser and of the vibration effect.
FftSize == 256
BufferLength == FftSize \div 2
ByteMax == 255
MaxVibration == 10
\* Math.random() is k / RandDen for a k in Rands, a value in [0, 1).
RandDen == 2
Rands == {0, RandDen \div 2, RandDen - 1}

\* The spectra getByteFrequencyData may write: one byte magnitude per bin.
Spectra == { [i \in 1..BufferLength |-> v] : v \in {0, ByteMax} }

\* The sum of d[lo..hi], split in halves to keep the evaluation shallow.
RECURSIVE SumRange(_, _, _)
SumRange(d, lo, hi) ==
    IF lo > hi THEN 0
    ELSE IF lo = hi THEN d[lo]
    ELSE LET mid == (lo + hi) \div 2
         IN  SumRange(d, lo, mid) + SumRange(d, mid + 1, hi)

\* dataArray.reduce((acc, val) => acc + val, 0)
SumOf(d) == SumRange(d, 1, BufferLength)

\* The sums a frame may see.
SpectrumTotals == { SumOf(d) : d \in Spectra }

\* Offsets are exact rationals with the common denominator ShakeDen:
\* shake = (random - 0.5) * 2 * (sum / bufferLength / 255) * maxVibration.
ShakeDen == RandDen * BufferLength * ByteMax
\* Fault variant of ShakeNum: the random draw is not centred on 0.5.
ShakeNumUncentred(k, total) == (2 * k + RandDen) * total * MaxVibration
ShakeNum(k, total) == (2 * k - RandDen) * total * MaxVibration

VARIABLES playlist, currentTrackIndex, loopTrack, loopPlaylist,
          vibrationEnabled, page, autoPlayTimers, uploads

vars == <<playlist, currentTrackIndex, loopTrack, loopPlaylist,
          vibrationEnabled, page, autoPlayTimers, uploads>>

\* ------------------------------------------------------- the platform
\* Every call a handler makes on a platform object is appended to
\* page.calls, which holds the calls of the latest step only.
Call(m, c) == [m EXCEPT !.calls = Append(@, c)]

Quiet(m) == [m EXCEPT !.calls = <<>>]

\* audio.ended: the position is at the end of a loaded resource.
Ended(m) == m.ready = "loaded" /\ m.pos = TrackEnd

\* audio.pause(): sets paused and queues a pause event when playing.
Pause(m) ==
    LET m1 == Call(m, "pause")
    IN  IF m1.paused THEN m1
        ELSE [m1 EXCEPT !.paused = TRUE, !.events = Append(@, "pause")]

\* audio.currentTime = 0
SeekStart(m) == [Call(m, "seek") EXCEPT !.pos = 0]

\* audio.src = url
SetSrc(m, url) == [Call(m, "src") EXCEPT !.src = url]

\* audio.load(): resets the element and starts fetching its src; a
\* revoked blob URL cannot be fetched, so no loadeddata will follow.
Load(m) ==
    LET m1 == Call(m, "load")
    IN  [m1 EXCEPT !.paused = TRUE, !.pos = 0,
                   !.ready = IF m1.src = NoSrc THEN "empty"
                             ELSE IF m1.src \in m1.revoked THEN "error"
                             ELSE "loading"]

\* audio.play(): the promise is rejected (and caught by the caller) when
\* the platform blocks playback or the element has nothing playable;
\* otherwise a paused element starts playing and a play event is queued.
Play(m, blocked) ==
    LET m1 == Call(m, "play")
    IN  IF blocked \/ m1.src = NoSrc \/ m1.ready \in {"empty", "error"}
            THEN m1
        ELSE IF m1.paused
            THEN [m1 EXCEPT !.paused = FALSE,
                            !.events = Append(@, "play"),
                            !.pos = IF Ended(m1) THEN 0 ELSE @]
        ELSE m1

\* URL.revokeObjectURL(url): the URL stops resolving.  Revoking a URL
\* that is already revoked changes nothing; the log tells the two apart.
RevokeObjectURL(m, url) ==
    IF url \in m.revoked THEN Call(m, "revoke_again")
    ELSE [Call(m, "revoke") EXCEPT !.revoked = @ \cup {url}]

\* audio.src.startsWith('blob:'): every URL of URL.createObjectURL does.
IsBlob(url) == url \in Urls

\* requestAnimationFrame returns a handle no pending callback has.
NewHandle(m) ==
    CHOOSE h \in 1..(Len(m.frames) + 1) :
        \A i \in 1..Len(m.frames) : m.frames[i].id # h

\* cancelAnimationFrame(id)
CancelFrame(m, id) ==
    [Call(m, "cancel") EXCEPT
        !.frames = SelectSeq(@, LAMBDA f : f.id # id)]

\* createMediaElementSource throws InvalidStateError when the element
\* already feeds a source node.
CreateThrows(m) == m.externalCapture \/ m.sourceNodes > 0

\* ------------------------------------------------------ the component
\* Fault variant of setupAudioSource: the isSourceCreatedRef guard is
\* missing, so every call tries to create the source node.
setupAudioSourceUnguarded(m) ==
    IF m.src # NoSrc
        THEN IF CreateThrows(m)
                THEN [Call(m, "create_throw") EXCEPT
                        !.connections = @ \cup {<<"analyser", "destination">>}]
                ELSE [Call(m, "create") EXCEPT
                        !.sourceNodes = @ + 1,
                        !.connections = @ \cup {<<"source", "analyser">>,
                                                <<"analyser", "destination">>},
                        !.isSourceCreated = TRUE]
        ELSE m

\* Fault variant of setupAudioSource: the catch path does not connect the
\* analyser to the destination.
setupAudioSourceNoFallback(m) ==
    IF ~m.isSourceCreated /\ m.src # NoSrc
        THEN IF CreateThrows(m)
                THEN Call(m, "create_throw")
                ELSE [Call(m, "create") EXCEPT
                        !.sourceNodes = @ + 1,
                        !.connections = @ \cup {<<"source", "analyser">>,
                                                <<"analyser", "destination">>},
                        !.isSourceCreated = TRUE]
        ELSE m

\* setupAudioSource (createMediaElementSource, connect, the catch path).
setupAudioSource(m) ==
    IF ~m.isSourceCreated /\ m.src # NoSrc
        THEN IF CreateThrows(m)
                THEN [Call(m, "create_throw") EXCEPT
                        !.connections = @ \cup {<<"analyser", "destination">>}]
                ELSE [Call(m, "create") EXCEPT
                        !.sourceNodes = @ + 1,
                        !.connections = @ \cup {<<"source", "analyser">>,
                                                <<"analyser", "destination">>},
                        !.isSourceCreated = TRUE]
        ELSE m

\* ensureAudioContextActive: resume() is called when the context is
\* suspended.  No handler branches on the context's state and resume()
\* settles in the background, so the page keeps no state for it.
ensureAudioContextActive(m) == m

\* stopAnimation
stopAnimation(m) ==
    LET m1 == IF m.animationId # NoHandle
                THEN [CancelFrame(m, m.animationId) EXCEPT
                        !.animationId = NoHandle]
                ELSE m
    IN  [Call(m1, "clear") EXCEPT !.canvas = "clear", !.bg = <<0, 0>>]

\* The background offset animate writes: vib is the vibrationEnabled the
\* closure captured, total the sum of the sampled spectrum, kx and ky the
\* two random draws.
Vibrate(m, vib, total, kx, ky) ==
    IF vib
        THEN [m EXCEPT !.bg = <<ShakeNum(kx, total), ShakeNum(ky, total)>>]
    ELSE IF m.bg # <<0, 0>>
        THEN [m EXCEPT !.bg = <<0, 0>>]
    ELSE m

\* Fault variant of animate: audio.ended is not looked at.
animateIgnoresEnded(m, vib, total, kx, ky) ==
    IF ~m.paused
        THEN LET h  == NewHandle(m)
                 m1 == [Call(m, "raf") EXCEPT
                            !.animationId = h,
                            !.frames = Append(@, [id |-> h, vib |-> vib])]
                 m3 == [Call(m1, "draw") EXCEPT !.canvas = "bars"]
             IN  Vibrate(m3, vib, total, kx, ky)
        ELSE stopAnimation(m)

\* animate: one run of the animation callback created by a render whose
\* vibrationEnabled was vib.  It schedules itself (the same closure).
animate(m, vib, total, kx, ky) ==
    IF ~m.paused /\ ~Ended(m)
        THEN LET h  == NewHandle(m)
                 m1 == [Call(m, "raf") EXCEPT
                            !.animationId = h,
                            !.frames = Append(@, [id |-> h, vib |-> vib])]
                 m3 == [Call(m1, "draw") EXCEPT !.canvas = "bars"]
             IN  Vibrate(m3, vib, total, kx, ky)
        ELSE stopAnimation(m)

\* index >= 0 && index < playlist.length
InRange(pl, index) == index >= 0 /\ index < Len(pl)

\* playlist[index]
TrackAt(pl, index) == pl[index + 1]

\* prev.findIndex(t => t.id === trackId), -1 when there is none
FindIndex(pl, trackId) ==
    IF \E i \in 1..Len(pl) : pl[i].id = trackId
        THEN (CHOOSE i \in 1..Len(pl) :
                 /\ pl[i].id = trackId
                 /\ \A j \in 1..(i - 1) : pl[j].id # trackId) - 1
        ELSE -1

\* prev.filter(t => t.id !== trackId)
FilterOut(pl, trackId) == SelectSeq(pl, LAMBDA t : t.id # trackId)

\* playTrackFromPlaylist: what it does to the page.  pl is the playlist
\* of the render that created the callback.
playTrackPage(pl, index, m) ==
    IF InRange(pl, index)
        THEN LET m1 == stopAnimation(m)
                 m2 == SeekStart(Pause(m1))
                 m3 == IF m2.src # NoSrc /\ IsBlob(m2.src)
                          THEN RevokeObjectURL(m2, m2.src) ELSE m2
                 m4 == Load(SetSrc(m3, TrackAt(pl, index).url))
                 m5 == ensureAudioContextActive(m4)
             IN  [Call(m5, "listen") EXCEPT !.listeners = @ + 1]
        ELSE m

\* Fault variant of playTrackIndex: setCurrentTrackIndex runs before the
\* range check.
playTrackIndexUnchecked(pl, index, cur) == index

\* Fault variant of playTrackIndex: setCurrentTrackIndex is forgotten.
playTrackIndexStale(pl, index, cur) == cur

\* playTrackFromPlaylist: the currentTrackIndex it leaves.
playTrackIndex(pl, index, cur) == IF InRange(pl, index) THEN index ELSE cur

\* handleLoadedData: one run of the once-listener.
handleLoadedData(m, blocked) == Play(setupAudioSource(m), blocked)

RECURSIVE RunListeners(_, _, _)
RunListeners(m, n, blocked) ==
    IF n = 0 THEN m
    ELSE RunListeners(handleLoadedData(m, blocked), n - 1, blocked)

\* handlePlay: vib is the vibrationEnabled of the render whose animate the
\* timer callback captures.
handlePlay(m, vib) ==
    LET m1 == setupAudioSource(ensureAudioContextActive(m))
    IN  [Call(m1, "setTimeout") EXCEPT !.timers = Append(@, vib)]

\* Fault variant of playTimer: the handle is not looked at.
playTimerUnguarded(m, vib, total, kx, ky) == animate(m, vib, total, kx, ky)

\* Fault variant of playTimer: the callback never starts the loop.
playTimerIdle(m, vib, total, kx, ky) == m

\* The timer callback of handlePlay.
playTimer(m, vib, total, kx, ky) ==
    IF m.animationId = NoHandle THEN animate(m, vib, total, kx, ky) ELSE m

\* handlePause
handlePause(m) == stopAnimation(m)

\* Fault variant of endedBranch: the loop-track case is missing.
endedBranchNoLoopTrack(lt, lp, cur, len) ==
    IF lp /\ len > 0 THEN "select"
    ELSE IF cur >= 0 /\ cur < len - 1 THEN "select"
    ELSE "clear"

\* Fault variant of endedBranch: the last track counts as having a next one.
endedBranchOffByOne(lt, lp, cur, len) ==
    IF lt /\ cur >= 0 THEN "restart"
    ELSE IF lp /\ len > 0 THEN "select"
    ELSE IF cur >= 0 /\ cur < len THEN "select"
    ELSE "clear"

\* Fault variant of endedTarget: loop-playlist does not wrap to index 0.
endedTargetNoWrap(lt, lp, cur, len) == cur + 1

\* handleEnded: the branch taken, and the index it selects.
endedBranch(lt, lp, cur, len) ==
    IF lt /\ cur >= 0 THEN "restart"
    ELSE IF lp /\ len > 0 THEN "select"
    ELSE IF cur >= 0 /\ cur < len - 1 THEN "select"
    ELSE "clear"

endedTarget(lt, lp, cur, len) ==
    IF lp /\ len > 0
        THEN IF cur >= 0 /\ cur < len - 1 THEN cur + 1 ELSE 0
        ELSE cur + 1

\* handleEnded: what it does to the page.
handleEndedPage(lt, lp, cur, pl, m, blocked) ==
    LET m1 == stopAnimation(m)
        br == endedBranch(lt, lp, cur, Len(pl))
    IN  IF br = "restart" THEN Play(SeekStart(m1), blocked)
        ELSE IF br = "select"
            THEN playTrackPage(pl, endedTarget(lt, lp, cur, Len(pl)), m1)
        ELSE m1

\* handleEnded: the currentTrackIndex it leaves.
handleEndedIndex(lt, lp, cur, pl) ==
    LET br == endedBranch(lt, lp, cur, Len(pl))
    IN  IF br = "restart" THEN cur
        ELSE IF br = "select"
            THEN playTrackIndex(pl, endedTarget(lt, lp, cur, Len(pl)), cur)
        ELSE -1

\* Fault variant of removeIndex: a later selection is not shifted.
removeIndexNoShift(cur, index) == IF cur = index THEN -1 ELSE cur

\* removeFromPlaylist: the currentTrackIndex it leaves; index is the
\* position of the removed track.
removeIndex(cur, index) ==
    IF cur = index THEN -1
    ELSE IF cur > index THEN cur - 1
    ELSE cur

\* Fault variant of removePage: removing the selected track does not stop
\* the render loop.
removePageNoStop(pl, trackId, cur, m) ==
    LET index == FindIndex(pl, trackId)
    IN  IF index = -1 THEN m
        ELSE LET track == TrackAt(pl, index)
                 m1 == IF IsBlob(track.url)
                          THEN RevokeObjectURL(m, track.url) ELSE m
             IN  IF cur = index THEN Pause(m1) ELSE m1

\* Fault variant of removePage: playback is stopped when any track at or
\* before the selected one is removed.
removePageStopsEarlier(pl, trackId, cur, m) ==
    LET index == FindIndex(pl, trackId)
    IN  IF index = -1 THEN m
        ELSE LET track == TrackAt(pl, index)
                 m1 == IF IsBlob(track.url)
                          THEN RevokeObjectURL(m, track.url) ELSE m
             IN  IF cur >= index THEN stopAnimation(Pause(m1)) ELSE m1

\* removeFromPlaylist: what it does to the page.
removePage(pl, trackId, cur, m) ==
    LET index == FindIndex(pl, trackId)
    IN  IF index = -1 THEN m
        ELSE LET track == TrackAt(pl, index)
                 m1 == IF IsBlob(track.url)
                          THEN RevokeObjectURL(m, track.url) ELSE m
             IN  IF cur = index THEN stopAnimation(Pause(m1)) ELSE m1

\* Fault variant of removePlaylist: the first track is dropped, whichever
\* id was asked for.
removePlaylistHead(pl, trackId) ==
    IF FindIndex(pl, trackId) = -1 THEN pl ELSE Tail(pl)

\* removeFromPlaylist: the playlist it leaves.
removePlaylist(pl, trackId) ==
    IF FindIndex(pl, trackId) = -1 THEN pl ELSE FilterOut(pl, trackId)

\* prev.map(t => t.id === track.id ? { ...t, duration } : t)
setDuration(pl, trackId, seconds) ==
    [i \in 1..Len(pl) |->
        IF pl[i].id = trackId THEN [pl[i] EXCEPT !.duration = seconds]
        ELSE pl[i]]

\* Fault variant of toggleLoopTrack: the other flag is left alone.
toggleLoopTrackOnly(lt, lp) == <<~lt, lp>>

\* The loop-track button: the flags <<loopTrack, loopPlaylist>> it leaves.
toggleLoopTrack(lt, lp) == <<~lt, IF ~lt THEN FALSE ELSE lp>>

\* The loop-playlist button.
toggleLoopPlaylist(lt, lp) == <<IF ~lp THEN FALSE ELSE lt, ~lp>>

\* ---------------------------------------------------------- the state
\* The page after the component has mounted.
NewPage(ext) ==
    [src |-> NoSrc, paused |-> TRUE, pos |-> 0, ready |-> "empty",
     events |-> <<>>, listeners |-> 0,
     revoked |-> {},
     animationId |-> NoHandle, frames |-> <<>>,
     canvas |-> "clear", bg |-> <<0, 0>>, timers |-> <<>>,
     isSourceCreated |-> FALSE, sourceNodes |-> 0,
     connections |-> {}, externalCapture |-> ext,
     calls |-> <<>>, stopped |-> FALSE, metadata |-> {}]

Init ==
    /\ playlist = <<>>
    /\ currentTrackIndex = -1
    /\ loopTrack = FALSE
    /\ loopPlaylist = FALSE
    /\ vibrationEnabled = TRUE
    /\ autoPlayTimers = <<>>
    /\ uploads = 0
    /\ \E ext \in BOOLEAN : page = NewPage(ext)

\* History kept for the properties, not state of the program: page.stopped
\* is TRUE when a pause event handler or a track switch (an in-range
\* playTrackFromPlaylist, which ends by registering its listener) has run
\* and no play event handler has run since.
Switched(m) == \E i \in 1..Len(m.calls) : m.calls[i] = "listen"
AfterStop(m, pauseRan) ==
    IF pauseRan \/ Switched(m) THEN [m EXCEPT !.stopped = TRUE] ELSE m
AfterStart(m) == [m EXCEPT !.stopped = FALSE]

\* The zero-delay timer of addToPlaylist fires before the user's next input.
UserTurn == autoPlayTimers = <<>>

\* Room for the media events and the listener a handler may add.
EventRoom(n) == Len(page.events) + n <= MaxEvents
ListenerRoom == page.listeners < MaxListeners

\* --------------------------------------------------------- the actions
\* handleAudioUpload -> addToPlaylist: a fresh id and a fresh blob URL.
\* The zero-delay timer keeps the playTrackFromPlaylist of this render,
\* and with it this render's playlist.
AddToPlaylist ==
    /\ UserTurn /\ uploads < MaxTracks
    /\ LET track == [id |-> uploads + 1, url |-> uploads + 1, duration |-> 0]
           newPlaylist == Append(playlist, track)
       IN  /\ playlist' = newPlaylist
           /\ autoPlayTimers' =
                IF currentTrackIndex = -1 /\ Len(playlist) = 0
                    THEN Append(autoPlayTimers,
                                [pl |-> playlist, index |-> Len(newPlaylist) - 1])
                    ELSE autoPlayTimers
    /\ uploads' = uploads + 1
    /\ page' = [Quiet(page) EXCEPT !.metadata = @ \cup {uploads + 1}]
    /\ UNCHANGED <<currentTrackIndex, loopTrack, loopPlaylist, vibrationEnabled>>

\* The zero-delay timer of addToPlaylist fires.
AutoPlayTimer ==
    /\ autoPlayTimers # <<>>
    /\ LET t == Head(autoPlayTimers)
       IN  /\ currentTrackIndex' = playTrackIndex(t.pl, t.index, currentTrackIndex)
           /\ page' = AfterStop(playTrackPage(t.pl, t.index, Quiet(page)), FALSE)
    /\ autoPlayTimers' = Tail(autoPlayTimers)
    /\ UNCHANGED <<playlist, loopTrack, loopPlaylist, vibrationEnabled, uploads>>

\* selectTrack(index): playTrackFromPlaylist of the latest render.
SelectTrack(index) ==
    /\ UserTurn /\ EventRoom(1) /\ ListenerRoom
    /\ currentTrackIndex' = playTrackIndex(playlist, index, currentTrackIndex)
    /\ page' = AfterStop(playTrackPage(playlist, index, Quiet(page)), FALSE)
    /\ UNCHANGED <<playlist, loopTrack, loopPlaylist, vibrationEnabled,
                   autoPlayTimers, uploads>>

\* removeTrack(id): removeFromPlaylist of the latest render.
RemoveTrack(trackId) ==
    /\ UserTurn /\ EventRoom(1)
    /\ playlist' = removePlaylist(playlist, trackId)
    /\ currentTrackIndex' =
          IF FindIndex(playlist, trackId) = -1 THEN currentTrackIndex
          ELSE removeIndex(currentTrackIndex, FindIndex(playlist, trackId))
    /\ page' = removePage(playlist, trackId, currentTrackIndex, Quiet(page))
    /\ UNCHANGED <<loopTrack, loopPlaylist, vibrationEnabled, autoPlayTimers,
                   uploads>>

ToggleLoopTrack ==
    /\ UserTurn
    /\ loopTrack' = toggleLoopTrack(loopTrack, loopPlaylist)[1]
    /\ loopPlaylist' = toggleLoopTrack(loopTrack, loopPlaylist)[2]
    /\ page' = Quiet(page)
    /\ UNCHANGED <<playlist, currentTrackIndex, vibrationEnabled,
                   autoPlayTimers, uploads>>

ToggleLoopPlaylist ==
    /\ UserTurn
    /\ loopTrack' = toggleLoopPlaylist(loopTrack, loopPlaylist)[1]
    /\ loopPlaylist' = toggleLoopPlaylist(loopTrack, loopPlaylist)[2]
    /\ page' = Quiet(page)
    /\ UNCHANGED <<playlist, currentTrackIndex, vibrationEnabled,
                   autoPlayTimers, uploads>>

ToggleVibration ==
    /\ UserTurn
    /\ vibrationEnabled' = ~vibrationEnabled
    /\ page' = Quiet(page)
    /\ UNCHANGED <<playlist, currentTrackIndex, loopTrack, loopPlaylist,
                   autoPlayTimers, uploads>>

\* The play and pause buttons of the element's native controls.
UserPlay ==
    /\ UserTurn /\ page.src # NoSrc /\ page.paused /\ EventRoom(1)
    /\ page' = Play(Quiet(page), FALSE)
    /\ UNCHANGED <<playlist, currentTrackIndex, loopTrack, loopPlaylist,
                   vibrationEnabled, autoPlayTimers, uploads>>

UserPause ==
    /\ UserTurn /\ ~page.paused /\ EventRoom(1)
    /\ page' = Pause(Quiet(page))
    /\ UNCHANGED <<playlist, currentTrackIndex, loopTrack, loopPlaylist,
                   vibrationEnabled, autoPlayTimers, uploads>>

\* The element has loaded enough data: every registered once-listener runs.
LoadedData ==
    /\ page.ready = "loading" /\ EventRoom(1)
    /\ \E blocked \in BOOLEAN :
        page' = [RunListeners([Quiet(page) EXCEPT !.ready = "loaded"],
                              page.listeners, blocked)
                 EXCEPT !.listeners = 0]
    /\ UNCHANGED <<playlist, currentTrackIndex, loopTrack, loopPlaylist,
                   vibrationEnabled, autoPlayTimers, uploads>>

\* Playback advances.  Reaching the end of the resource queues the task
\* that ends playback.
Advance ==
    /\ ~page.paused /\ page.ready = "loaded" /\ page.pos < TrackEnd
    /\ EventRoom(1)
    /\ page' = IF page.pos + 1 = TrackEnd
                  THEN [Quiet(page) EXCEPT !.pos = TrackEnd,
                                          !.events = Append(@, "ended")]
                  ELSE [Quiet(page) EXCEPT !.pos = @ + 1]
    /\ UNCHANGED <<playlist, currentTrackIndex, loopTrack, loopPlaylist,
                   vibrationEnabled, autoPlayTimers, uploads>>

\* The page with its oldest media event taken off the queue.
Taken == [Quiet(page) EXCEPT !.events = Tail(@)]

\* The play event is handled while fewer than n grace-delay timers pend.
OnPlayUpTo(n) ==
    /\ page.events # <<>> /\ Head(page.events) = "play"
    /\ Len(page.timers) < n
    /\ page' = AfterStart(handlePlay(Taken, vibrationEnabled))
    /\ UNCHANGED <<playlist, currentTrackIndex, loopTrack, loopPlaylist,
                   vibrationEnabled, autoPlayTimers, uploads>>

OnPlay == OnPlayUpTo(MaxTimers)

OnPause ==
    /\ page.events # <<>> /\ Head(page.events) = "pause"
    /\ page' = AfterStop(handlePause(Taken), TRUE)
    /\ UNCHANGED <<playlist, currentTrackIndex, loopTrack, loopPlaylist,
                   vibrationEnabled, autoPlayTimers, uploads>>

\* The task that ends playback: an element that is still at the end and
\* not paused is paused and gets its pause event; then the ended event is
\* fired.  Both handlers run in this one task.
EndTask(m) ==
    IF Ended(m) /\ ~m.paused
        THEN handlePause([m EXCEPT !.paused = TRUE])
        ELSE m

OnEnded ==
    /\ page.events # <<>> /\ Head(page.events) = "ended"
    /\ ListenerRoom
    /\ \E blocked \in BOOLEAN :
        page' = AfterStop(handleEndedPage(loopTrack, loopPlaylist,
                                          currentTrackIndex, playlist,
                                          EndTask(Taken), blocked),
                          Ended(Taken) /\ ~Taken.paused)
    /\ currentTrackIndex' = handleEndedIndex(loopTrack, loopPlaylist,
                                             currentTrackIndex, playlist)
    /\ UNCHANGED <<playlist, loopTrack, loopPlaylist, vibrationEnabled,
                   autoPlayTimers, uploads>>

\* The grace-delay timer of handlePlay fires; the frame it may run samples
\* a spectrum of sum total and draws kx and ky.
PlayTimerWith(total, kx, ky) ==
    /\ page.timers # <<>>
    /\ page' = playTimer([Call(Quiet(page), "timeout") EXCEPT !.timers = Tail(@)],
                         Head(page.timers), total, kx, ky)
    /\ UNCHANGED <<playlist, currentTrackIndex, loopTrack, loopPlaylist,
                   vibrationEnabled, autoPlayTimers, uploads>>

PlayTimer ==
    \E total \in SpectrumTotals, kx \in Rands, ky \in Rands :
        PlayTimerWith(total, kx, ky)

\* A scheduled animation-frame callback runs; it samples a spectrum of
\* sum total and draws kx and ky.
FrameTickWith(total, kx, ky) ==
    /\ \E i \in 1..Len(page.frames) :
        page' = animate([Call(Quiet(page), "frame") EXCEPT
                            !.frames = SelectSeq(@, LAMBDA f : f.id # page.frames[i].id)],
                        page.frames[i].vib, total, kx, ky)
    /\ UNCHANGED <<playlist, currentTrackIndex, loopTrack, loopPlaylist,
                   vibrationEnabled, autoPlayTimers, uploads>>

FrameTick ==
    \E total \in SpectrumTotals, kx \in Rands, ky \in Rands :
        FrameTickWith(total, kx, ky)

Next ==
    \/ AddToPlaylist
    \/ AutoPlayTimer
    \/ \E index \in -1..Len(playlist) : SelectTrack(index)
    \/ \E trackId \in 1..MaxTracks : RemoveTrack(trackId)
    \/ ToggleLoopTrack
    \/ ToggleLoopPlaylist
    \/ ToggleVibration
    \/ UserPlay
    \/ UserPause
    \/ LoadedData
    \/ Advance
    \/ OnPlay
    \/ OnPause
    \/ OnEnded
    \/ PlayTimer
    \/ FrameTick

Spec == Init /\ [][Next]_vars

\* ---------------------------------------------------- the playlist alone
\* The whole player with silent tracks (every frame samples zeros and the
\* background never moves) and with the metadata of each upload arriving
\* at any later time, also after the track was removed.
LoadedMetadata(trackId, seconds) ==
    /\ trackId \in page.metadata
    /\ playlist' = setDuration(playlist, trackId, seconds)
    /\ page' = [Quiet(page) EXCEPT !.metadata = @ \ {trackId}]
    /\ UNCHANGED <<currentTrackIndex, loopTrack, loopPlaylist,
                   vibrationEnabled, autoPlayTimers, uploads>>

SilentTimer == PlayTimerWith(0, 0, 0)

SilentTick == FrameTickWith(0, 0, 0)

NextList ==
    \/ AddToPlaylist
    \/ AutoPlayTimer
    \/ \E index \in -1..Len(playlist) : SelectTrack(index)
    \/ \E trackId \in 1..MaxTracks : RemoveTrack(trackId)
    \/ \E trackId \in 1..MaxTracks, seconds \in 1..MaxSeconds :
          LoadedMetadata(trackId, seconds)
    \/ ToggleLoopTrack
    \/ ToggleLoopPlaylist
    \/ UserPlay
    \/ UserPause
    \/ LoadedData
    \/ Advance
    \/ OnPlay
    \/ OnPause
    \/ OnEnded
    \/ SilentTimer
    \/ SilentTick

SpecList == Init /\ [][NextList]_vars

\* ------------------------------------------------ the render loop alone
\* A player with two uploaded tracks and no further uploads or removals,
\* explored with more pending grace-delay timers and with spectra of more
\* shapes: flat at several levels, a single peak, and a ramp over all bins.
LoopSpectra ==
    { [i \in 1..BufferLength |-> v] : v \in {0, 1, ByteMax \div 2, ByteMax} }
        \cup { [i \in 1..BufferLength |-> IF i = 1 THEN ByteMax ELSE 0],
               [i \in 1..BufferLength |-> 2 * i - 1] }

\* Every bin of the spectrum d is 0.
Silent(d) == \A i \in 1..BufferLength : d[i] = 0

\* What a frame may sample: the sum of a spectrum, and whether it is silent.
LoopSamples == { [total |-> SumOf(d), silent |-> Silent(d)] : d \in LoopSpectra }

\* Every value Math.random() takes in this model.
LoopRands == 0..(RandDen - 1)

InitLoop ==
    /\ playlist = <<[id |-> 1, url |-> 1, duration |-> 0],
                    [id |-> 2, url |-> 2, duration |-> 0]>>
    /\ currentTrackIndex = -1
    /\ loopTrack = FALSE
    /\ loopPlaylist = FALSE
    /\ vibrationEnabled = TRUE
    /\ autoPlayTimers = <<>>
    /\ uploads = 2
    /\ \E ext \in BOOLEAN : page = [NewPage(ext) EXCEPT !.metadata = {1, 2}]

LoopOnPlay == OnPlayUpTo(MaxLoopTimers)

LoopTimer ==
    \E s \in LoopSamples, kx \in LoopRands, ky \in LoopRands :
        PlayTimerWith(s.total, kx, ky)

LoopTick ==
    \E s \in LoopSamples, kx \in LoopRands, ky \in LoopRands :
        FrameTickWith(s.total, kx, ky)

NextLoop ==
    \/ \E index \in -1..Len(playlist) : SelectTrack(index)
    \/ ToggleVibration
    \/ UserPlay
    \/ UserPause
    \/ LoadedData
    \/ Advance
    \/ LoopOnPlay
    \/ OnPause
    \/ OnEnded
    \/ LoopTimer
    \/ LoopTick

SpecLoop == InitLoop /\ [][NextLoop]_vars

\* The platform runs every timer that has expired and every animation-frame
\* callback that is scheduled: neither can stay pending for ever.
SpecLoopFair ==
    InitLoop /\ [][NextLoop]_vars /\ WF_vars(LoopTimer) /\ WF_vars(LoopTick)

\* ----------------------------------------------------------- properties
\* The call c was made in the latest step.
Issued(m, c) == \E i \in 1..Len(m.calls) : m.calls[i] = c

\* The call a was made, and the call b after it, in the latest step.
IssuedInOrder(m, a, b) ==
    \E i \in 1..Len(m.calls), j \in 1..Len(m.calls) :
        i < j /\ m.calls[i] = a /\ m.calls[j] = b

\* How often the call c was made in the latest step.
TimesIssued(m, c) == Cardinality({i \in 1..Len(m.calls) : m.calls[i] = c})

\* The latest step ran playTrackFromPlaylist directly (not from handleEnded,
\* whose own stopAnimation clears the canvas once more before it).
JustSelected == Issued(page, "listen") /\ TimesIssued(page, "clear") = 1

\* The latest step ran handleEnded and it selected a track.
JustEndedSelect == Issued(page, "listen") /\ TimesIssued(page, "clear") >= 2

\* C1: for every valid index i, selectTrack(i) leaves currentTrackIndex = i,
\* assigns the URL of playlist[i] to the audio element and then calls load().
C1_SelectLoadsTrack ==
    [][\A i \in 0..(Len(playlist) - 1) :
          SelectTrack(i) =>
            /\ currentTrackIndex' = i
            /\ page'.src = TrackAt(playlist, i).url
            /\ IssuedInOrder(page', "src", "load")
            /\ page'.ready \in {"loading", "error"}]_vars

\* A track other than the first of a three-track playlist has just been
\* selected and is loading.
C1_Witness ==
    /\ JustSelected
    /\ Len(playlist) = 3
    /\ currentTrackIndex = 2
    /\ page.src = TrackAt(playlist, 2).url
    /\ page.ready = "loading"

\* C2: after the first upload into an empty playlist with nothing selected,
\* the zero-delay timer selects the new track (index 0), assigns its URL to
\* the audio element and calls load(), so that play follows the load.
C2_UploadAutoPlays ==
    [][AutoPlayTimer =>
          /\ currentTrackIndex' = Head(autoPlayTimers).index
          /\ page'.src = TrackAt(playlist, Head(autoPlayTimers).index).url
          /\ IssuedInOrder(page', "src", "load")]_vars

\* C3: removing the selected track leaves currentTrackIndex = -1, the audio
\* element paused, no frame callback scheduled, the canvas cleared and the
\* background offset (0, 0).
C3_RemoveCurrentStops ==
    [][\A id \in 1..MaxTracks :
          (/\ RemoveTrack(id)
           /\ currentTrackIndex >= 0
           /\ FindIndex(playlist, id) = currentTrackIndex) =>
            /\ currentTrackIndex' = -1
            /\ page'.paused
            /\ page'.animationId = NoHandle
            /\ page'.frames = <<>>
            /\ page'.canvas = "clear"
            /\ page'.bg = <<0, 0>>]_vars

\* The selected track was removed while it played with a frame scheduled:
\* its URL was released, the element paused and the frame cancelled.
C3_Witness ==
    /\ page.calls = <<"revoke", "pause", "cancel", "clear">>
    /\ currentTrackIndex = -1
    /\ page.paused
    /\ page.frames = <<>>

\* C4: currentTrackIndex is -1 or a valid index of the playlist.
C4_IndexValid ==
    currentTrackIndex = -1
    \/ (0 <= currentTrackIndex /\ currentTrackIndex < Len(playlist))

\* An earlier track was removed while the last track was selected: the
\* selection is the last index of the shorter playlist.
C4_Witness ==
    /\ page.calls = <<"revoke">>
    /\ Len(playlist) = 2
    /\ currentTrackIndex = 1
    /\ page.src = TrackAt(playlist, 1).url
    /\ TrackAt(playlist, 0).id = 2

\* C5: removing a track before the selected one decrements
\* currentTrackIndex by one, so the same track stays selected; removing a
\* track after it leaves currentTrackIndex unchanged; both leave the audio
\* element's source and playback alone.
C5_RemoveOtherKeepsTrack ==
    [][\A id \in 1..MaxTracks :
          LET index == FindIndex(playlist, id)
          IN  (RemoveTrack(id) /\ index # -1 /\ index # currentTrackIndex) =>
                /\ index < currentTrackIndex =>
                      /\ currentTrackIndex' = currentTrackIndex - 1
                      /\ TrackAt(playlist', currentTrackIndex').id
                            = TrackAt(playlist, currentTrackIndex).id
                /\ index > currentTrackIndex =>
                      currentTrackIndex' = currentTrackIndex
                /\ page'.src = page.src
                /\ page'.paused = page.paused
                /\ page'.pos = page.pos
                /\ page'.ready = page.ready
                /\ page'.events = page.events
                /\ page'.animationId = page.animationId
                /\ page'.frames = page.frames
                /\ ~Issued(page', "pause") /\ ~Issued(page', "play")
                /\ ~Issued(page', "src") /\ ~Issued(page', "load")]_vars

\* The track at index 0 was removed while the track at index 2 played: the
\* same track, now at index 1, is selected and still playing.
C5_Witness ==
    /\ page.calls = <<"revoke">>
    /\ Len(playlist) = 2
    /\ TrackAt(playlist, 0).id = 2
    /\ TrackAt(playlist, 1).id = 3
    /\ currentTrackIndex = 1
    /\ page.src = TrackAt(playlist, 1).url
    /\ ~page.paused
    /\ 1 \in page.revoked

\* C6: loopTrack and loopPlaylist are never both true; the toggle that
\* enables one of them leaves the other false.
C6_LoopFlagsExclusive ==
    [][/\ ~(loopTrack' /\ loopPlaylist')
       /\ (ToggleLoopTrack /\ ~loopTrack) => (loopTrack' /\ ~loopPlaylist')
       /\ (ToggleLoopPlaylist /\ ~loopPlaylist) => (loopPlaylist' /\ ~loopTrack')
      ]_vars

\* Loop-track is on after the switch from loop-playlist (the quiet step of
\* a toggle), loop-playlist is off.
C6_Witness ==
    /\ loopTrack /\ ~loopPlaylist
    /\ page.calls = <<>>
    /\ currentTrackIndex >= 0

\* C7: with loopTrack on, loopPlaylist off and a track selected, handleEnded
\* seeks to 0 and then calls play(); currentTrackIndex and the source stay,
\* and nothing is loaded or released.
C7_LoopTrackRestarts ==
    [][(OnEnded /\ loopTrack /\ ~loopPlaylist /\ currentTrackIndex >= 0) =>
          /\ currentTrackIndex' = currentTrackIndex
          /\ page'.pos = 0
          /\ IssuedInOrder(page', "seek", "play")
          /\ page'.src = page.src
          /\ page'.ready = page.ready
          /\ page'.revoked = page.revoked
          /\ page'.listeners = page.listeners
          /\ ~Issued(page', "load") /\ ~Issued(page', "src")
          /\ ~Issued(page', "revoke") /\ ~Issued(page', "revoke_again")]_vars

\* The selected track ended with loop-track on and plays again from 0.
C7_Witness ==
    /\ loopTrack /\ ~loopPlaylist
    /\ currentTrackIndex >= 0
    /\ Len(page.calls) >= 3
    /\ SubSeq(page.calls, Len(page.calls) - 1, Len(page.calls)) = <<"seek", "play">>
    /\ TimesIssued(page, "clear") = 2
    /\ ~page.paused
    /\ page.pos = 0
    /\ page.src = TrackAt(playlist, currentTrackIndex).url

\* C8: with loopPlaylist on, loopTrack off and a non-empty playlist,
\* handleEnded selects index (currentTrackIndex + 1) mod the playlist
\* length and starts loading that track.
C8_LoopPlaylistWraps ==
    [][(OnEnded /\ loopPlaylist /\ ~loopTrack /\ Len(playlist) > 0) =>
          /\ currentTrackIndex' = (currentTrackIndex + 1) % Len(playlist)
          /\ page'.src = TrackAt(playlist, currentTrackIndex').url
          /\ IssuedInOrder(page', "src", "load")]_vars

\* The last track of a playlist of several ended with loop-playlist on:
\* index 0 is selected, and the last track's URL was the source replaced.
C8_Witness ==
    /\ JustEndedSelect
    /\ loopPlaylist /\ ~loopTrack
    /\ Len(playlist) >= 2
    /\ currentTrackIndex = 0
    /\ page.src = TrackAt(playlist, 0).url
    /\ Issued(page, "revoke")
    /\ TrackAt(playlist, Len(playlist) - 1).url \in page.revoked

\* C9: with both loop flags off, handleEnded selects and loads index
\* currentTrackIndex + 1 when the selected track is not the last one;
\* otherwise currentTrackIndex becomes -1, neither load() nor play() is
\* called, and the render loop is stopped.
C9_AdvanceOrStop ==
    [][(OnEnded /\ ~loopTrack /\ ~loopPlaylist) =>
          IF currentTrackIndex >= 0 /\ currentTrackIndex < Len(playlist) - 1
            THEN /\ currentTrackIndex' = currentTrackIndex + 1
                 /\ page'.src = TrackAt(playlist, currentTrackIndex + 1).url
                 /\ IssuedInOrder(page', "src", "load")
            ELSE /\ currentTrackIndex' = -1
                 /\ ~Issued(page', "load") /\ ~Issued(page', "play")
                 /\ page'.src = page.src
                 /\ page'.animationId = NoHandle
                 /\ page'.frames = <<>>
                 /\ page'.canvas = "clear"
                 /\ page'.bg = <<0, 0>>]_vars

\* The last track of a three-track playlist ended with both flags off:
\* nothing is selected and the element rests at the end of that track.
C9_Witness ==
    /\ ~loopTrack /\ ~loopPlaylist
    /\ Len(playlist) = 3
    /\ currentTrackIndex = -1
    /\ page.src = TrackAt(playlist, 2).url
    /\ Ended(page) /\ page.paused
    /\ page.events = <<>>
    /\ Issued(page, "clear") /\ ~Issued(page, "revoke")
    /\ page.frames = <<>>

\* C10: at most one source node is ever created for the audio element, and
\* once the element is marked attached no step tries to create a node or
\* changes the graph.
C10_AttachOnce ==
    [][/\ page'.sourceNodes <= 1
       /\ page.isSourceCreated =>
            /\ page'.isSourceCreated
            /\ page'.sourceNodes = page.sourceNodes
            /\ page'.connections = page.connections
            /\ ~Issued(page', "create")
            /\ ~Issued(page', "create_throw")]_vars

\* handlePlay ran setupAudioSource on an element that was attached before:
\* it only set its timer.
C10_Witness ==
    /\ page.isSourceCreated
    /\ page.sourceNodes = 1
    /\ page.connections = {<<"source", "analyser">>, <<"analyser", "destination">>}
    /\ page.calls = <<"setTimeout">>

\* C11: a frame tick that runs while vibrationEnabled is false leaves the
\* background offset at (0, 0).
C11_DisabledMeansZero ==
    [][(FrameTick /\ ~vibrationEnabled) => page'.bg = <<0, 0>>]_vars

\* |n|
Abs(n) == IF n < 0 THEN -n ELSE n

C13_OutOfRangeNoOp ==
    [][\A index \in {-1, Len(playlist)} :
          SelectTrack(index) =>
            /\ currentTrackIndex' = currentTrackIndex
            /\ playlist' = playlist
            /\ page' = Quiet(page)]_vars

\* The second of two tracks plays with the render loop running, nothing
\* was called in the latest step, and an out-of-range selectTrack can run.
C13_Witness ==
    /\ page.calls = <<>>
    /\ Len(playlist) = 2
    /\ currentTrackIndex = 1
    /\ ~page.paused
    /\ page.animationId # NoHandle
    /\ ENABLED SelectTrack(Len(playlist))

\* C14: no blob URL is revoked more than once: no step calls
\* URL.revokeObjectURL on a URL that was revoked before.
C14_RevokedOnce == ~Issued(page, "revoke_again")

\* C15: the URL assigned to the audio element has not been revoked.
C15_SourceNotRevoked == page.src = NoSrc \/ page.src \notin page.revoked

\* C16: every track still in the playlist has a URL that has not been
\* revoked, so that selecting it loads a live resource.
C16_ListedTracksLive ==
    \A i \in 1..Len(playlist) : playlist[i].url \notin page.revoked

\* The latest step was the expiry of a grace-delay timer of handlePlay.
TimerFired(m) == Issued(m, "timeout")

\* C17: at most one frame callback is pending after every step, it is the
\* one animationIdRef names, and a grace-delay timer that expires while a
\* handle is active schedules nothing.
C17_SingleFrameHandle ==
    [][/\ Len(page'.frames) <= 1
       /\ page'.frames # <<>> => page'.frames[1].id = page'.animationId
       /\ (TimerFired(page') /\ page.animationId # NoHandle)
            => /\ ~Issued(page', "raf")
               /\ page'.frames = page.frames
               /\ page'.animationId = page.animationId]_vars

\* A grace-delay timer has expired while the render loop was running, and
\* the one pending frame callback is still the only one.
C17_Witness ==
    /\ TimerFired(page)
    /\ ~Issued(page, "raf")
    /\ page.animationId # NoHandle
    /\ Len(page.frames) = 1

\* The latest step was the run of a scheduled animation-frame callback.
FrameRan(m) == Issued(m, "frame")

\* C18: a frame tick that finds the element paused or ended draws nothing
\* and schedules nothing, and leaves the handle cleared, no callback
\* pending, the canvas clear and the background at (0, 0); a tick that finds
\* it playing draws; and no step draws bars unless the element was neither
\* paused nor ended when the step began.
C18_IdleWhenNotPlaying ==
    [][/\ FrameRan(page') =>
            IF page.paused \/ Ended(page)
                THEN /\ ~Issued(page', "draw")
                     /\ ~Issued(page', "raf")
                     /\ page'.animationId = NoHandle
                     /\ page'.frames = <<>>
                     /\ page'.canvas = "clear"
                     /\ page'.bg = <<0, 0>>
                ELSE Issued(page', "draw")
       /\ Issued(page', "draw") => ~page.paused /\ ~Ended(page)]_vars

\* A frame tick found the element at its end, not yet paused, and stopped
\* the loop.
C18_Witness ==
    /\ FrameRan(page)
    /\ Ended(page) /\ ~page.paused
    /\ ~Issued(page, "draw")
    /\ page.animationId = NoHandle

\* C19: once a pause event handler or a track switch has run, and until
\* the next play event is handled, no frame callback is scheduled, the
\* handle is clear and no step draws bars, whatever grace-delay timers are
\* still pending.
C19_QuietUntilPlay ==
    page.stopped =>
        /\ page.frames = <<>>
        /\ page.animationId = NoHandle
        /\ ~Issued(page, "draw")

\* C20: a track switch stops the render loop and pauses playback before it
\* assigns the new source, and issues neither attach nor play itself (they
\* wait for loadeddata); and a frame callback is scheduled only when the
\* source has loaded and a play event has been handled since the switch.
C20_LoadPlayLoopOrder ==
    [][/\ Switched(page') =>
            /\ IssuedInOrder(page', "clear", "src")
            /\ IssuedInOrder(page', "pause", "src")
            /\ IssuedInOrder(page', "src", "load")
            /\ ~Issued(page', "create") /\ ~Issued(page', "create_throw")
            /\ ~Issued(page', "play")
       /\ Issued(page', "raf") =>
            /\ page'.ready = "loaded"
            /\ ~page'.stopped]_vars

\* C21: when createMediaElementSource throws, the handler goes on: the
\* analyser is connected to the destination, no source node is added and
\* the element stays unattached; the loadeddata listener still calls
\* play(), and handlePlay still arms its timer.
C21_AttachFailureDegrades ==
    [][Issued(page', "create_throw") =>
          /\ <<"analyser", "destination">> \in page'.connections
          /\ ~page'.isSourceCreated
          /\ page'.sourceNodes = page.sourceNodes
          /\ IF Issued(page', "setTimeout")
                THEN IssuedInOrder(page', "create_throw", "setTimeout")
                ELSE /\ page.ready = "loading" /\ page'.ready = "loaded"
                     /\ IssuedInOrder(page', "create_throw", "play")]_vars

\* The loadeddata listener has met the failure and the track plays all the
\* same, with its play event on the way.
C21_Witness ==
    /\ IssuedInOrder(page, "create_throw", "play")
    /\ page.ready = "loaded"
    /\ ~page.paused
    /\ page.events = <<"play">>
    /\ ~page.isSourceCreated
    /\ page.connections = {<<"analyser", "destination">>}

\* C22: whenever a grace-delay timer of a handled play event is pending,
\* eventually a frame callback is scheduled, unless the element is paused
\* or has ended by then.
C22_LoopEventuallyRuns ==
    (page.timers # <<>>) ~> (page.frames # <<>> \/ page.paused \/ Ended(page))

\* The expiry of a grace-delay timer has started the render loop.
C22_Witness ==
    /\ IssuedInOrder(page, "timeout", "raf")
    /\ page.frames # <<>>
    /\ ~page.paused /\ ~Ended(page)

\* C23: while nothing is selected (currentTrackIndex = -1) the component
\* starts no playback: a loadeddata listener that fires then does not call
\* play().
C23_NoPlayWhenUnselected ==
    [][(currentTrackIndex = -1 /\ page.ready = "loading"
            /\ page'.ready = "loaded")
          => ~Issued(page', "play")]_vars

\* The identity of the tracks of pl, in order.
Who(pl) == [i \in 1..Len(pl) |-> <<pl[i].id, pl[i].url>>]

\* pl without its k-th element.
Without(pl, k) == SubSeq(pl, 1, k - 1) \o SubSeq(pl, k + 1, Len(pl))

\* C24: an upload appends one track with a new id after the tracks that
\* were listed; removing an id that is listed deletes that one track and
\* keeps the others in order; removing an unknown id changes nothing; a
\* metadata update changes only the duration of the track with its id; and
\* no other step (select, ended, toggles, playback, frames) changes the
\* playlist at all.
C24_OrderKept ==
    [][/\ AddToPlaylist =>
            /\ Len(playlist') = Len(playlist) + 1
            /\ SubSeq(playlist', 1, Len(playlist)) = playlist
            /\ \A i \in 1..Len(playlist) :
                  playlist[i].id # playlist'[Len(playlist')].id
       /\ \A trackId \in 1..MaxTracks :
            RemoveTrack(trackId) =>
                IF \E k \in 1..Len(playlist) : playlist[k].id = trackId
                    THEN \E k \in 1..Len(playlist) :
                            /\ playlist[k].id = trackId
                            /\ playlist' = Without(playlist, k)
                    ELSE playlist' = playlist
       /\ \A trackId \in 1..MaxTracks, seconds \in 1..MaxSeconds :
            LoadedMetadata(trackId, seconds) =>
                /\ Who(playlist') = Who(playlist)
                /\ \A i \in 1..Len(playlist) :
                      playlist'[i] = playlist[i] \/ playlist[i].id = trackId
       /\ ~(\/ AddToPlaylist
            \/ \E trackId \in 1..MaxTracks : RemoveTrack(trackId)
            \/ \E trackId \in 1..MaxTracks, seconds \in 1..MaxSeconds :
                  LoadedMetadata(trackId, seconds))
            => playlist' = playlist]_vars

\* The middle one of three tracks has just been removed; the first and the
\* third remain in that order, the third with its duration known.
C24_Witness ==
    /\ page.calls # <<>> /\ page.calls[1] = "revoke"
    /\ Who(playlist) = <<<<1, 1>>, <<3, 3>>>>
    /\ playlist[1].duration = 0
    /\ playlist[2].duration = MaxSeconds

====
